---- MODULE Spec2Model ----
(***************************************************************************)
(* Model of ytdl-desktop's native backend (src-tauri/src/lib.rs): the two  *)
(* tauri commands greet and append_chunk_to_file, and run(), which builds  *)
(* the host's invoke handler.                                              *)
(*                                                                         *)
(* The filesystem is the only durable state.  A call of                    *)
(* append_chunk_to_file is a small process: decode (line 13), open         *)
(* (lines 15-19), write_all (line 21), return (line 23).  Calls run on the *)
(* host's workers, so two of them may be in progress at once.              *)
(***************************************************************************)
EXTENDS Integers, Sequences, FiniteSets, TLC

(***************************************************************************)
(* Bounds of the model.                                                    *)
(***************************************************************************)
MaxCalls == 2
MaxChunkLen == 2

\* Workers of the host on which a command may run.
Calls == {1, 2}

\* Byte values the payloads are built from (all of a byte's bit patterns
\* matter to base64 only through its three sextet alignments).
SampleBytes == {105, 255}

(***************************************************************************)
(* base64: standard alphabet (RFC 4648), padding required.                 *)
(***************************************************************************)
Alphabet ==
  << "A","B","C","D","E","F","G","H","I","J","K","L","M","N","O","P",
     "Q","R","S","T","U","V","W","X","Y","Z","a","b","c","d","e","f",
     "g","h","i","j","k","l","m","n","o","p","q","r","s","t","u","v",
     "w","x","y","z","0","1","2","3","4","5","6","7","8","9","+","/" >>

Pad == "="

Sym(v) == Alphabet[v + 1]

IsSym(ch) == \E i \in 1..64 : Alphabet[i] = ch

SymValue(ch) == (CHOOSE i \in 1..64 : Alphabet[i] = ch) - 1

\* The caller's side: base64(B) of a byte sequence B.
RECURSIVE Base64Encode(_)
Base64Encode(B) ==
  IF Len(B) = 0 THEN << >>
  ELSE IF Len(B) = 1 THEN
    << Sym(B[1] \div 4), Sym((B[1] % 4) * 16), Pad, Pad >>
  ELSE IF Len(B) = 2 THEN
    << Sym(B[1] \div 4), Sym((B[1] % 4) * 16 + B[2] \div 16),
       Sym((B[2] % 16) * 4), Pad >>
  ELSE
    << Sym(B[1] \div 4), Sym((B[1] % 4) * 16 + B[2] \div 16),
       Sym((B[2] % 16) * 4 + B[3] \div 64), Sym(B[3] % 64) >>
    \o Base64Encode(SubSeq(B, 4, Len(B)))

\* Number of trailing padding characters of s.
RECURSIVE PadCount(_)
PadCount(s) ==
  IF Len(s) > 0 /\ s[Len(s)] = Pad THEN 1 + PadCount(SubSeq(s, 1, Len(s) - 1))
  ELSE 0

\* A variant of DecodeQuanta that drops the bytes of a final partial group.
RECURSIVE DecodeQuantaDropTail(_)
DecodeQuantaDropTail(v) ==
  IF Len(v) < 4 THEN << >>
  ELSE
    << v[1] * 4 + v[2] \div 16, (v[2] % 16) * 16 + v[3] \div 4,
       (v[3] % 4) * 64 + v[4] >>
    \o DecodeQuantaDropTail(SubSeq(v, 5, Len(v)))

\* The bytes of a sequence of sextet values: 4 sextets give 3 bytes, a final
\* group of 2 gives 1 byte and a final group of 3 gives 2 bytes.
RECURSIVE DecodeQuanta(_)
DecodeQuanta(v) ==
  IF Len(v) < 2 THEN << >>
  ELSE IF Len(v) = 2 THEN << v[1] * 4 + v[2] \div 16 >>
  ELSE IF Len(v) = 3 THEN
    << v[1] * 4 + v[2] \div 16, (v[2] % 16) * 16 + v[3] \div 4 >>
  ELSE
    << v[1] * 4 + v[2] \div 16, (v[2] % 16) * 16 + v[3] \div 4,
       (v[3] % 4) * 64 + v[4] >>
    \o DecodeQuanta(SubSeq(v, 5, Len(v)))

\* decode(base64): Ok(bytes) or Err(diagnostic).  Padding is taken as required
\* and canonical; the inputs below hold no unpadded string, on which releases
\* of the decoder differ.
Base64Decode(s) ==
  LET pad  == PadCount(s)
      body == SubSeq(s, 1, Len(s) - pad)
      n    == Len(body)
      vals == [i \in 1..n |-> SymValue(body[i])]
  IN  IF \E i \in 1..n : ~IsSym(body[i])
        THEN [ok |-> FALSE, bytes |-> << >>, err |-> "Invalid byte"]
      ELSE IF pad > 2 \/ (pad > 0 /\ n % 4 = 0)
        THEN [ok |-> FALSE, bytes |-> << >>, err |-> "Invalid byte"]
      ELSE IF n % 4 = 1
        THEN [ok |-> FALSE, bytes |-> << >>, err |-> "Invalid input length"]
      ELSE IF (n + pad) % 4 # 0
        THEN [ok |-> FALSE, bytes |-> << >>, err |-> "Invalid padding"]
      ELSE IF (n % 4 = 2 /\ vals[n] % 16 # 0) \/ (n % 4 = 3 /\ vals[n] % 4 # 0)
        THEN [ok |-> FALSE, bytes |-> << >>, err |-> "Invalid last symbol"]
      ELSE [ok |-> TRUE, bytes |-> DecodeQuanta(vals), err |-> ""]


(***************************************************************************)
(* greet                                                                   *)
(***************************************************************************)
greet(name) == << "Hello, ", name, "! You've been greeted from Rust!" >>

(***************************************************************************)
(* The filesystem the calls act on.                                        *)
(***************************************************************************)
Paths == {"/tmp/a.bin", "/tmp/b.bin", "/nonexistent-dir/x", "/tmp", "/ro/x"}

ParentOf(p) ==
  CASE p = "/tmp/a.bin" -> "/tmp"
    [] p = "/tmp/b.bin" -> "/tmp"
    [] p = "/nonexistent-dir/x" -> "/nonexistent-dir"
    [] p = "/tmp" -> "/"
    [] p = "/ro/x" -> "/ro"

\* Directories in which the process may not create files.
ReadOnlyDirs == {"/ro"}

AbsentFile == [kind |-> "absent", bytes |-> << >>]

RegularFile(b) == [kind |-> "file", bytes |-> b]

\* Errors by the step that returns them (each is e.to_string()).
DecodeErrors ==
  {"Invalid byte", "Invalid input length", "Invalid padding", "Invalid last symbol"}

OpenErrors ==
  {"No such file or directory (os error 2)", "Is a directory (os error 21)",
   "Permission denied (os error 13)"}

WriteErrors == {"No space left on device (os error 28)"}

\* A variant of OpenAppend with truncate(true): a file that is present is
\* emptied by the open.
OpenTruncate(f, d, p) ==
  IF p \in d
    THEN [ok |-> FALSE, err |-> "Is a directory (os error 21)", fs |-> f, dirs |-> d]
  ELSE IF ParentOf(p) \notin d
    THEN [ok |-> FALSE, err |-> "No such file or directory (os error 2)",
          fs |-> f, dirs |-> d]
  ELSE IF f[p].kind = "absent" /\ ParentOf(p) \in ReadOnlyDirs
    THEN [ok |-> FALSE, err |-> "Permission denied (os error 13)",
          fs |-> f, dirs |-> d]
  ELSE [ok |-> TRUE, err |-> "", fs |-> [f EXCEPT ![p] = RegularFile(<< >>)],
        dirs |-> d]

\* A variant of OpenAppend that first creates the missing parent directory
\* (create_dir_all on the parent).
OpenCreateDirs(f, d, p) ==
  IF p \in d
    THEN [ok |-> FALSE, err |-> "Is a directory (os error 21)", fs |-> f, dirs |-> d]
  ELSE IF f[p].kind = "absent" /\ ParentOf(p) \in ReadOnlyDirs
    THEN [ok |-> FALSE, err |-> "Permission denied (os error 13)",
          fs |-> f, dirs |-> d]
  ELSE [ok |-> TRUE, err |-> "",
        fs |-> IF f[p].kind = "absent" THEN [f EXCEPT ![p] = RegularFile(<< >>)] ELSE f,
        dirs |-> d \cup {ParentOf(p)}]

\* OpenOptions::new().create(true).append(true).open(path) on filesystem
\* f with directories d: the error, or the filesystem with the file created
\* if it was absent and left as it is if it was present.
OpenAppend(f, d, p) ==
  IF p \in d
    THEN [ok |-> FALSE, err |-> "Is a directory (os error 21)", fs |-> f, dirs |-> d]
  ELSE IF ParentOf(p) \notin d
    THEN [ok |-> FALSE, err |-> "No such file or directory (os error 2)",
          fs |-> f, dirs |-> d]
  ELSE IF f[p].kind = "absent" /\ ParentOf(p) \in ReadOnlyDirs
    THEN [ok |-> FALSE, err |-> "Permission denied (os error 13)",
          fs |-> f, dirs |-> d]
  ELSE [ok |-> TRUE, err |-> "",
        fs |-> IF f[p].kind = "absent" THEN [f EXCEPT ![p] = RegularFile(<< >>)] ELSE f,
        dirs |-> d]

\* One write(2) on a handle opened for append: the bytes land at the
\* then-current end of the file.
AppendBytes(old, chunk) == old \o chunk

(***************************************************************************)
(* run(): the commands the invoke handler is generated for.                *)
(***************************************************************************)
RunHandler == {"greet"}

Commands == {"greet", "append_chunk_to_file"}

GreetNames == {"world"}

CommandNotFound(cmd) == << "Command ", cmd, " not found" >>

(***************************************************************************)
(* Inputs of a call: base64(B) for a payload B, or a malformed string.     *)
(***************************************************************************)
Chunks == UNION {[1..n -> SampleBytes] : n \in 0..MaxChunkLen}

Malformed ==
  { << "!","!","n","o","t","b","a","s","e","6","4","!","!" >>,
    << "A" >>,
    << "a","R","=","=" >> }

Inputs ==
  {[base64 |-> Base64Encode(B), bytes |-> B, wf |-> TRUE] : B \in Chunks}
  \cup {[base64 |-> m, bytes |-> << >>, wf |-> FALSE] : m \in Malformed}

\* What a caller may ask for: any path with any input.
Requests == {[path |-> p, inp |-> i] : p \in Paths, i \in Inputs}

\* The requests issued while another call may be in progress: every input on
\* the two regular files, and one payload on each of the other paths.
OverlapRequests ==
  {r \in Requests : \/ r.path \in {"/tmp/a.bin", "/tmp/b.bin"}
                    \/ (r.inp.wf /\ r.inp.bytes = << 105 >>)}

NoArg == [path |-> "", base64 |-> << >>, bytes |-> << >>, wf |-> FALSE]

\* Contents some earlier writer may have left in a file.
InitialContents == {AbsentFile, RegularFile(<< 0 >>)}

VARIABLES
  fs,          \* path -> the file there: absent, or a regular file's bytes
  dirs,        \* the directories that exist
  registered,  \* commands of the host's invoke handler
  reply,       \* the bridge's last immediate reply
  pc,          \* call -> idle | decode | open | write | done
  arg,         \* call -> its arguments (bytes, wf: what the caller encoded)
  data,        \* call -> the decoded buffer
  off,         \* call -> bytes of data written so far by write_all
  handles,     \* call -> number of open handles it holds
  result,      \* call -> "none", "Ok" or the error string
  ncalls,      \* calls started so far
  pre,         \* call -> fs when the call started
  preDirs,     \* call -> dirs when the call started
  nwrites,     \* call -> writes issued by write_all
  opened,      \* call -> it has called open
  clean,       \* path -> absent at first, no call on it failed in write and
               \*         no call started while another was in progress
  okCalls,     \* path -> while clean: some call on it has returned Ok
  log          \* path -> while clean: B1 \o ... \o Bk, the payloads of the
               \*         calls on it that returned Ok, in the order they returned

vars == << fs, dirs, registered, reply, pc, arg, data, off, handles, result,
           ncalls, pre, preDirs, nwrites, opened, clean, okCalls, log >>

callVars ==
  << pc, arg, data, off, handles, result, ncalls, pre, preDirs, nwrites, opened >>

NoSnapshot == [p \in Paths |-> AbsentFile]

Init ==
  /\ \E a \in InitialContents :
       fs = [p \in Paths |-> IF p = "/tmp/a.bin" THEN a ELSE AbsentFile]
  /\ dirs = {"/", "/tmp", "/ro"}
  /\ registered = RunHandler
  /\ reply = << >>
  /\ pc = [c \in Calls |-> "idle"]
  /\ arg = [c \in Calls |-> NoArg]
  /\ data = [c \in Calls |-> << >>]
  /\ off = [c \in Calls |-> 0]
  /\ handles = [c \in Calls |-> 0]
  /\ result = [c \in Calls |-> "none"]
  /\ ncalls = 0
  /\ pre = [c \in Calls |-> NoSnapshot]
  /\ preDirs = [c \in Calls |-> {}]
  /\ nwrites = [c \in Calls |-> 0]
  /\ opened = [c \in Calls |-> FALSE]
  /\ clean = [p \in Paths |-> fs[p].kind = "absent"]
  /\ okCalls = [p \in Paths |-> FALSE]
  /\ log = [p \in Paths |-> << >>]

(***************************************************************************)
(* append_chunk_to_file(path, base64), step by step.                       *)
(***************************************************************************)
\* The function is entered with its two arguments.
Invoke(c, p, inp) ==
  /\ pc[c] = "idle"
  /\ ncalls < MaxCalls
  /\ pc' = [pc EXCEPT ![c] = "decode"]
  /\ arg' = [arg EXCEPT ![c] = [path |-> p, base64 |-> inp.base64,
                                bytes |-> inp.bytes, wf |-> inp.wf]]
  /\ ncalls' = ncalls + 1
  /\ pre' = [pre EXCEPT ![c] = fs]
  /\ preDirs' = [preDirs EXCEPT ![c] = dirs]
  /\ IF \E d \in Calls \ {c} : pc[d] # "idle"
       THEN /\ clean' = [q \in Paths |-> FALSE]
            /\ okCalls' = [q \in Paths |-> FALSE]
            /\ log' = [q \in Paths |-> << >>]
       ELSE UNCHANGED << clean, okCalls, log >>
  /\ UNCHANGED << fs, dirs, registered, reply, data, off, handles, result,
                  nwrites, opened >>

\* A variant of Decode: the file is opened before the argument is decoded.
DecodeAfterOpen(c) ==
  /\ pc[c] = "decode"
  /\ LET r == Base64Decode(arg[c].base64)
         o == OpenAppend(fs, dirs, arg[c].path)
     IN  IF r.ok
           THEN /\ data' = [data EXCEPT ![c] = r.bytes]
                /\ pc' = [pc EXCEPT ![c] = "open"]
                /\ UNCHANGED << result, fs >>
           ELSE /\ result' = [result EXCEPT ![c] = r.err]
                /\ pc' = [pc EXCEPT ![c] = "done"]
                /\ fs' = o.fs
                /\ UNCHANGED data
  /\ UNCHANGED << dirs, registered, reply, arg, off, handles, ncalls,
                  pre, preDirs, nwrites, opened, clean, okCalls, log >>

\* let data = decode(base64).map_err(|e| e.to_string())?;
Decode(c) ==
  /\ pc[c] = "decode"
  /\ LET r == Base64Decode(arg[c].base64)
     IN  IF r.ok
           THEN /\ data' = [data EXCEPT ![c] = r.bytes]
                /\ pc' = [pc EXCEPT ![c] = "open"]
                /\ UNCHANGED result
           ELSE /\ result' = [result EXCEPT ![c] = r.err]
                /\ pc' = [pc EXCEPT ![c] = "done"]
                /\ UNCHANGED data
  /\ UNCHANGED << fs, dirs, registered, reply, arg, off, handles, ncalls,
                  pre, preDirs, nwrites, opened, clean, okCalls, log >>

\* A variant of Open: an empty buffer returns Ok(()) at once, without the open.
OpenSkipEmpty(c) ==
  /\ pc[c] = "open"
  /\ LET r == OpenAppend(fs, dirs, arg[c].path)
     IN  IF data[c] = << >>
           THEN /\ result' = [result EXCEPT ![c] = "Ok"]
                /\ pc' = [pc EXCEPT ![c] = "done"]
                /\ UNCHANGED << fs, dirs, handles, opened >>
           ELSE /\ fs' = r.fs
                /\ dirs' = r.dirs
                /\ opened' = [opened EXCEPT ![c] = TRUE]
                /\ IF r.ok
                     THEN /\ handles' = [handles EXCEPT ![c] = @ + 1]
                          /\ pc' = [pc EXCEPT ![c] = "write"]
                          /\ UNCHANGED result
                     ELSE /\ result' = [result EXCEPT ![c] = r.err]
                          /\ pc' = [pc EXCEPT ![c] = "done"]
                          /\ UNCHANGED handles
  /\ UNCHANGED << registered, reply, arg, data, off, ncalls, pre, preDirs,
                  nwrites, clean, okCalls, log >>

\* let mut file = OpenOptions::new().create(true).append(true).open(path)
\*     .map_err(|e| e.to_string())?;
Open(c) ==
  /\ pc[c] = "open"
  /\ LET r == OpenAppend(fs, dirs, arg[c].path)
     IN  /\ fs' = r.fs
         /\ dirs' = r.dirs
         /\ IF r.ok
              THEN /\ handles' = [handles EXCEPT ![c] = @ + 1]
                   /\ pc' = [pc EXCEPT ![c] = "write"]
                   /\ UNCHANGED result
              ELSE /\ result' = [result EXCEPT ![c] = r.err]
                   /\ pc' = [pc EXCEPT ![c] = "done"]
                   /\ UNCHANGED handles
  /\ opened' = [opened EXCEPT ![c] = TRUE]
  /\ UNCHANGED << registered, reply, arg, data, off, ncalls, pre, preDirs,
                  nwrites, clean, okCalls, log >>

\* A variant of WriteSome for a handle opened with write(true) in place of
\* append(true): the bytes land at the handle's own position, which starts
\* at 0, over whatever is there.
WriteSomeAtPosition(c, n) ==
  /\ pc[c] = "write"
  /\ n \in 1..(Len(data[c]) - off[c])
  /\ LET old == fs[arg[c].path].bytes
         new == SubSeq(old, 1, off[c]) \o SubSeq(data[c], off[c] + 1, off[c] + n)
                \o SubSeq(old, off[c] + n + 1, Len(old))
     IN  fs' = [fs EXCEPT ![arg[c].path].bytes = new]
  /\ off' = [off EXCEPT ![c] = @ + n]
  /\ nwrites' = [nwrites EXCEPT ![c] = @ + 1]
  /\ UNCHANGED << dirs, registered, reply, pc, arg, data, handles, result,
                  ncalls, pre, preDirs, opened, clean, okCalls, log >>

\* file.write_all(&data): one write of the loop accepts n bytes of what is
\* left of the buffer (an interrupted write is tried again and changes
\* nothing).
WriteSome(c, n) ==
  /\ pc[c] = "write"
  /\ n \in 1..(Len(data[c]) - off[c])
  /\ fs' = [fs EXCEPT ![arg[c].path].bytes =
              AppendBytes(@, SubSeq(data[c], off[c] + 1, off[c] + n))]
  /\ off' = [off EXCEPT ![c] = @ + n]
  /\ nwrites' = [nwrites EXCEPT ![c] = @ + 1]
  /\ UNCHANGED << dirs, registered, reply, pc, arg, data, handles, result,
                  ncalls, pre, preDirs, opened, clean, okCalls, log >>

\* A variant of WriteFail: the file is put back as it was before the call.
WriteFailRollback(c, e) ==
  /\ pc[c] = "write"
  /\ off[c] < Len(data[c])
  /\ fs' = [fs EXCEPT ![arg[c].path] = pre[c][arg[c].path]]
  /\ result' = [result EXCEPT ![c] = e]
  /\ handles' = [handles EXCEPT ![c] = @ - 1]
  /\ pc' = [pc EXCEPT ![c] = "done"]
  /\ nwrites' = [nwrites EXCEPT ![c] = @ + 1]
  /\ clean' = [clean EXCEPT ![arg[c].path] = FALSE]
  /\ okCalls' = [okCalls EXCEPT ![arg[c].path] = FALSE]
  /\ log' = [log EXCEPT ![arg[c].path] = << >>]
  /\ UNCHANGED << dirs, registered, reply, arg, data, off, ncalls, pre,
                  preDirs, opened >>

\* A variant of WriteFail: the handle is not released on the error path.
WriteFailLeak(c, e) ==
  /\ pc[c] = "write"
  /\ off[c] < Len(data[c])
  /\ result' = [result EXCEPT ![c] = e]
  /\ pc' = [pc EXCEPT ![c] = "done"]
  /\ nwrites' = [nwrites EXCEPT ![c] = @ + 1]
  /\ clean' = [clean EXCEPT ![arg[c].path] = FALSE]
  /\ okCalls' = [okCalls EXCEPT ![arg[c].path] = FALSE]
  /\ log' = [log EXCEPT ![arg[c].path] = << >>]
  /\ UNCHANGED << fs, dirs, registered, reply, arg, data, off, handles, ncalls,
                  pre, preDirs, opened >>

\* file.write_all(&data).map_err(|e| e.to_string())?: a write of the loop
\* fails while some of the buffer is left; file is dropped on the way out.
WriteFail(c, e) ==
  /\ pc[c] = "write"
  /\ off[c] < Len(data[c])
  /\ result' = [result EXCEPT ![c] = e]
  /\ handles' = [handles EXCEPT ![c] = @ - 1]
  /\ pc' = [pc EXCEPT ![c] = "done"]
  /\ nwrites' = [nwrites EXCEPT ![c] = @ + 1]
  /\ clean' = [clean EXCEPT ![arg[c].path] = FALSE]
  /\ okCalls' = [okCalls EXCEPT ![arg[c].path] = FALSE]
  /\ log' = [log EXCEPT ![arg[c].path] = << >>]
  /\ UNCHANGED << fs, dirs, registered, reply, arg, data, off, ncalls, pre,
                  preDirs, opened >>

\* The buffer is exhausted: Ok(()), and file is dropped at the end of scope.
WriteDone(c) ==
  /\ pc[c] = "write"
  /\ off[c] = Len(data[c])
  /\ result' = [result EXCEPT ![c] = "Ok"]
  /\ handles' = [handles EXCEPT ![c] = @ - 1]
  /\ pc' = [pc EXCEPT ![c] = "done"]
  /\ IF clean[arg[c].path]
       THEN /\ okCalls' = [okCalls EXCEPT ![arg[c].path] = TRUE]
            /\ log' = [log EXCEPT ![arg[c].path] = @ \o arg[c].bytes]
       ELSE UNCHANGED << okCalls, log >>
  /\ UNCHANGED << fs, dirs, registered, reply, arg, data, off, ncalls, pre,
                  preDirs, nwrites, opened, clean >>

\* The caller takes the result; the call's locals are gone.
Return(c) ==
  /\ pc[c] = "done"
  /\ pc' = [pc EXCEPT ![c] = "idle"]
  /\ arg' = [arg EXCEPT ![c] = NoArg]
  /\ data' = [data EXCEPT ![c] = << >>]
  /\ off' = [off EXCEPT ![c] = 0]
  /\ result' = [result EXCEPT ![c] = "none"]
  /\ pre' = [pre EXCEPT ![c] = NoSnapshot]
  /\ preDirs' = [preDirs EXCEPT ![c] = {}]
  /\ nwrites' = [nwrites EXCEPT ![c] = 0]
  /\ opened' = [opened EXCEPT ![c] = FALSE]
  /\ UNCHANGED << fs, dirs, registered, reply, handles, ncalls, clean, okCalls, log >>

(***************************************************************************)
(* The host bridge: the web UI invokes a command by name.                  *)
(***************************************************************************)
BridgeInvoke(cmd) ==
  IF cmd \notin registered
    THEN /\ reply' = CommandNotFound(cmd)
         /\ UNCHANGED << fs, dirs, registered, callVars, clean, okCalls, log >>
  ELSE IF cmd = "greet"
    THEN /\ \E name \in GreetNames : reply' = greet(name)
         /\ UNCHANGED << fs, dirs, registered, callVars, clean, okCalls, log >>
  ELSE \E c \in Calls, r \in Requests : Invoke(c, r.path, r.inp)

Bridge == \E cmd \in Commands : BridgeInvoke(cmd)

Step(c) ==
  \/ Decode(c)
  \/ Open(c)
  \/ \E n \in 1..MaxChunkLen : WriteSome(c, n)
  \/ \E e \in WriteErrors : WriteFail(c, e)
  \/ WriteDone(c)

\* Calls are issued one after the other, directly or through the bridge:
\* none starts while one is in progress.
AllIdle == \A c \in Calls : pc[c] = "idle"

Next ==
  \/ AllIdle /\ \E r \in Requests : Invoke(1, r.path, r.inp)
  \/ Step(1)
  \/ Return(1)
  \/ AllIdle /\ Bridge

Spec == Init /\ [][Next]_vars

\* Calls may overlap: the host dispatches each on whichever worker is free.
\* Every worker runs one call, and the results stay to be looked at.
ConcurrentNext ==
  \/ \E c \in Calls, r \in OverlapRequests : Invoke(c, r.path, r.inp)
  \/ \E c \in Calls : Step(c)

ConcurrentSpec == Init /\ [][ConcurrentNext]_vars

(***************************************************************************)
(* Properties.                                                             *)
(***************************************************************************)
IsPrefix(a, b) == Len(a) <= Len(b) /\ SubSeq(b, 1, Len(a)) = a

\* m is an order-preserving interleaving of a and b.
RECURSIVE IsMerge(_, _, _)
IsMerge(m, a, b) ==
  IF Len(m) = 0 THEN Len(a) = 0 /\ Len(b) = 0
  ELSE \/ Len(a) > 0 /\ Head(a) = Head(m) /\ IsMerge(Tail(m), Tail(a), b)
       \/ Len(b) > 0 /\ Head(b) = Head(m) /\ IsMerge(Tail(m), a, Tail(b))

Target(c) == arg[c].path

\* What the file of call c held when the call started.
PreBytes(c) == pre[c][Target(c)].bytes

\* The path of call c could not be opened when the call started: its parent
\* directory is missing, it is a directory, or the file is absent and may not
\* be created.
CannotOpen(c) ==
  \/ ParentOf(Target(c)) \notin preDirs[c]
  \/ Target(c) \in preDirs[c]
  \/ pre[c][Target(c)].kind = "absent" /\ ParentOf(Target(c)) \in ReadOnlyDirs

\* C1: a call given base64(B) that returns Ok leaves the file present, longer
\* by the number of decoded bytes, holding what it held before (nothing if it
\* was absent) followed by B.
C1_OkAppendsPayload ==
  \A c \in Calls :
    (pc[c] = "done" /\ arg[c].wf /\ result[c] = "Ok") =>
      /\ fs[Target(c)].kind = "file"
      /\ Len(fs[Target(c)].bytes) = Len(PreBytes(c)) + Len(data[c])
      /\ fs[Target(c)].bytes = PreBytes(c) \o arg[c].bytes

C1_Witness ==
  \E c \in Calls :
    /\ pc[c] = "done" /\ arg[c].wf /\ result[c] = "Ok"
    /\ pre[c][Target(c)] = RegularFile(<< 0 >>)
    /\ arg[c].bytes = << 105, 255 >>
    /\ fs[Target(c)].bytes = << 0, 105, 255 >>

\* C2: while every call on an initially absent path has been serial and has
\* not failed in its write, the file holds B1 \o ... \o Bk after the k-th call
\* that returned Ok, for every k (and is absent before the first).
C2_SerialConcatenation ==
  \A p \in Paths :
    (clean[p] /\ \A c \in Calls : pc[c] \in {"idle", "done"}) =>
      fs[p] = IF okCalls[p] THEN RegularFile(log[p]) ELSE AbsentFile

C2_Witness ==
  /\ pc[1] = "done" /\ result[1] = "Ok" /\ ncalls = 2
  /\ clean[Target(1)]
  /\ arg[1].bytes = << 255 >>
  /\ PreBytes(1) = << 105, 105 >>
  /\ fs[Target(1)].bytes = << 105, 105, 255 >>

\* C3: a call given malformed base64 returns the decode diagnostic without
\* having called open, and leaves every file and directory as it was.
C3_MalformedLeavesFilesystem ==
  \A c \in Calls :
    (pc[c] = "done" /\ ~arg[c].wf) =>
      /\ result[c] \in DecodeErrors
      /\ ~opened[c]
      /\ fs = pre[c]
      /\ dirs = preDirs[c]

C3_Witness ==
  \E c \in Calls :
    /\ pc[c] = "done" /\ ~arg[c].wf
    /\ Target(c) = "/tmp/b.bin"
    /\ fs["/tmp/b.bin"] = AbsentFile
    /\ result[c] = "Invalid byte"

\* C4: the invoke handler built by run() holds the greeting command and the
\* chunk-append command, and the bridge never answers that the chunk-append
\* command does not exist.
C4_AppendCommandRegistered ==
  /\ {"greet", "append_chunk_to_file"} \subseteq registered
  /\ reply # CommandNotFound("append_chunk_to_file")

\* C5: a call given well-formed base64 and a path that cannot be opened
\* (missing parent directory, a directory, no permission) returns the open
\* diagnostic, and a call that returns one has created no file and no
\* directory.
C5_OpenFailureCreatesNothing ==
  \A c \in Calls :
    pc[c] = "done" =>
      /\ (arg[c].wf /\ CannotOpen(c)) => result[c] \in OpenErrors
      /\ result[c] \in OpenErrors =>
           /\ fs = pre[c]
           /\ dirs = preDirs[c]
           /\ handles[c] = 0

C5_Witness ==
  \E c \in Calls :
    /\ pc[c] = "done" /\ arg[c].wf
    /\ Target(c) = "/nonexistent-dir/x"
    /\ arg[c].bytes = << 105, 105 >>
    /\ result[c] = "No such file or directory (os error 2)"
    /\ "/nonexistent-dir" \notin dirs

\* C6 as stated: a call given the empty string returns Ok, whatever the path.
C6_EmptyAlwaysOk ==
  \A c \in Calls :
    (pc[c] = "done" /\ arg[c].wf /\ arg[c].base64 = << >>) => result[c] = "Ok"

\* C6: a call given the empty string on a path that can be opened returns
\* Ok; a file that was absent is then present with length 0, and a file that
\* was present is as it was.  On a path that cannot be opened it returns the
\* open diagnostic.
C6_EmptyChunk ==
  \A c \in Calls :
    (pc[c] = "done" /\ arg[c].wf /\ arg[c].base64 = << >>) =>
      IF CannotOpen(c)
        THEN result[c] \in OpenErrors
        ELSE /\ result[c] = "Ok"
             /\ nwrites[c] = 0
             /\ fs[Target(c)] = RegularFile(PreBytes(c))

C6_Witness ==
  \E c \in Calls :
    /\ pc[c] = "done" /\ arg[c].wf /\ arg[c].base64 = << >>
    /\ result[c] = "Ok"
    /\ pre[c][Target(c)] = AbsentFile
    /\ fs[Target(c)] = RegularFile(<< >>)

\* C7: whatever a call returns, what each file held when the call started is
\* a prefix of what it holds when the call is done, and no step of any call
\* removes a file, shortens it or changes a byte it already holds.
C7_AppendOnly ==
  /\ [](\A c \in Calls : pc[c] = "done" =>
          \A p \in Paths :
            /\ pre[c][p].kind = "file" => fs[p].kind = "file"
            /\ IsPrefix(pre[c][p].bytes, fs[p].bytes))
  /\ [][\A p \in Paths :
          /\ fs[p].kind = "file" => fs'[p].kind = "file"
          /\ IsPrefix(fs[p].bytes, fs'[p].bytes)]_vars

C7_Witness ==
  \E c \in Calls :
    /\ pc[c] = "done" /\ result[c] \in WriteErrors
    /\ pre[c][Target(c)] = RegularFile(<< 0 >>)
    /\ fs[Target(c)].bytes = << 0, 255 >>

\* C8: a call whose write fails returns the write diagnostic with the file
\* holding what it held before followed by the bytes the writes before the
\* failure accepted, which are a proper prefix of B; nothing is rolled back.
C8_WriteFailureKeepsPrefix ==
  \A c \in Calls :
    (pc[c] = "done" /\ opened[c] /\ result[c] # "Ok" /\ result[c] \notin OpenErrors) =>
      /\ result[c] \in WriteErrors
      /\ off[c] < Len(arg[c].bytes)
      /\ fs[Target(c)] =
           RegularFile(PreBytes(c) \o SubSeq(arg[c].bytes, 1, off[c]))

C8_Witness ==
  \E c \in Calls :
    /\ pc[c] = "done" /\ result[c] \in WriteErrors
    /\ pre[c][Target(c)] = AbsentFile
    /\ arg[c].bytes = << 105, 255 >>
    /\ fs[Target(c)] = RegularFile(<< 105 >>)

\* C9: a call holds one handle while it writes and none before its open or
\* after it has returned, whatever it returned; no handle is open when no
\* call is in progress.
C9_HandleScopedToCall ==
  /\ \A c \in Calls :
       /\ handles[c] \in {0, 1}
       /\ pc[c] \in {"idle", "decode", "open", "done"} => handles[c] = 0
       /\ pc[c] = "write" => handles[c] = 1
  /\ (\A c \in Calls : pc[c] \in {"idle", "done"}) =>
       \A c \in Calls : handles[c] = 0

C9_Witness ==
  /\ pc[1] = "done" /\ result[1] \in WriteErrors /\ off[1] = 1
  /\ pc[2] = "done" /\ result[2] \in DecodeErrors
  /\ handles[1] = 0 /\ handles[2] = 0

\* What the file the two calls share held when the first of them started.
SharedBefore ==
  IF Len(PreBytes(1)) <= Len(PreBytes(2)) THEN PreBytes(1) ELSE PreBytes(2)

\* What has been added to that file since.
SharedAdded ==
  SubSeq(fs[Target(1)].bytes, Len(SharedBefore) + 1, Len(fs[Target(1)].bytes))

\* C10: two overlapping calls on one path that both return Ok leave the file
\* holding what it held, followed by an order-preserving interleaving of B1
\* and B2: no byte is lost or overwritten.  When each payload went out in at
\* most one write, the interleaving is B1 \o B2 or B2 \o B1.
C10_ConcurrentMerge ==
  (/\ pc[1] = "done" /\ pc[2] = "done"
   /\ result[1] = "Ok" /\ result[2] = "Ok"
   /\ Target(1) = Target(2)) =>
    /\ IsPrefix(SharedBefore, fs[Target(1)].bytes)
    /\ Len(fs[Target(1)].bytes) =
         Len(SharedBefore) + Len(arg[1].bytes) + Len(arg[2].bytes)
    /\ IsMerge(SharedAdded, arg[1].bytes, arg[2].bytes)
    /\ (nwrites[1] <= 1 /\ nwrites[2] <= 1) =>
         SharedAdded \in {arg[1].bytes \o arg[2].bytes, arg[2].bytes \o arg[1].bytes}

\* An interleaved result: the payloads went out in two writes each.
C10_Witness ==
  /\ pc[1] = "done" /\ pc[2] = "done"
  /\ result[1] = "Ok" /\ result[2] = "Ok"
  /\ Target(1) = Target(2)
  /\ PreBytes(1) = << 0 >> /\ PreBytes(2) = << 0 >>
  /\ arg[1].bytes = << 105, 105 >> /\ arg[2].bytes = << 255, 255 >>
  /\ fs[Target(1)].bytes = << 0, 105, 255, 105, 255 >>

====
